---- MODULE Spec2Model ----
(***************************************************************************)
(* A model of devalue(value) (src/src/index.ts): the canonicalizing walk   *)
(* over the value graph, the naming of repeated values, the rendering of   *)
(* the expression text and the assembly of the self-invoking wrapper.      *)
(*                                                                         *)
(* Values are records [t, n, s]; an object is a reference into the heap.   *)
(* Text is a sequence of pieces: every character that comes from the input *)
(* (string values, keys, pattern sources) is one piece of its own, every   *)
(* template fragment of the code is one piece.                             *)
(***************************************************************************)
EXTENDS Integers, Sequences, FiniteSets, TLC

VARIABLES input, heap, root, pc, counts, mapObjToJSON, logNum, logLimit,
          reported, names, str, params, statements, values, result, error

vars == <<input, heap, root, pc, counts, mapObjToJSON, logNum, logLimit,
          reported, names, str, params, statements, values, result, error>>

(***************************************************************************)
(* Bounds of the model.                                                    *)
(***************************************************************************)
MaxNodes == 2
MaxEdges == 2
MaxLogLimit == 1

(***************************************************************************)
(* Values.                                                                 *)
(***************************************************************************)
Undef == [t |-> "undef", n |-> 0, s |-> <<>>]
Num(k) == [t |-> "num", n |-> k, s |-> <<>>]
NegZero == [t |-> "negzero", n |-> 0, s |-> <<>>]
Str(cs) == [t |-> "str", n |-> 0, s |-> cs]
Ref(i) == [t |-> "ref", n |-> i, s |-> <<>>]
Fn == [t |-> "fn", n |-> 0, s |-> <<>>]
Hole == [t |-> "hole", n |-> 0, s |-> <<>>]
Tmp(i) == [t |-> "tmp", n |-> i, s |-> <<>>]
NoHook == [t |-> "none", n |-> 0, s |-> <<>>]

\* The key a Map files a value under (SameValueZero): -0 and 0 are one key.
SameValueZero(v) == IF v.t = "negzero" THEN Num(0) ELSE v

chars == << "a","b","c","d","e","f","g","h","i","j","k","l","m",
            "n","o","p","q","r","s","t","u","v","w","x","y","z",
            "A","B","C","D","E","F","G","H","I","J","K","L","M",
            "N","O","P","Q","R","S","T","U","V","W","X","Y","Z",
            "_","$" >>

digits == << "0","1","2","3","4","5","6","7","8","9" >>

Range(q) == { q[i] : i \in DOMAIN q }

RECURSIVE NatStr(_)
NatStr(k) == IF k < 10 THEN << digits[k + 1] >>
             ELSE Append(NatStr(k \div 10), digits[(k % 10) + 1])

RECURSIVE Flatten(_)
Flatten(qs) == IF qs = <<>> THEN <<>> ELSE Head(qs) \o Flatten(Tail(qs))

RECURSIVE Join(_, _)
Join(qs, sep) == IF qs = <<>> THEN <<>>
                 ELSE IF Len(qs) = 1 THEN Head(qs)
                 ELSE Head(qs) \o <<sep>> \o Join(Tail(qs), sep)

(***************************************************************************)
(* The heap: objects by identity.  props are the own enumerable string     *)
(* keyed properties in insertion order, items the elements of an array     *)
(* (v, or Hole) or the members of a set (v) or a map (k, v), prim the      *)
(* primitive inside a boxed scalar, a date's time or a pattern's source,   *)
(* hook what the object's toJSON() returns (NoHook: it has none).          *)
(***************************************************************************)
Obj(kind, props, items, prim, hook) ==
    [kind |-> kind, props |-> props, items |-> items, prim |-> prim, hook |-> hook]

\* Object(thing) !== thing
isPrimitive(thing) == thing.t \in {"undef", "num", "negzero", "str"}

\* Object.prototype.toString.call(thing).slice(8, -1) of an object
getType(h, thing) ==
    IF thing.t = "fn" THEN "Function"
    ELSE IF thing.t = "tmp" THEN "Array"
    ELSE IF thing.t = "str" THEN "String"
    ELSE IF thing.t \in {"num", "negzero"} THEN "Number"
    ELSE IF thing.t = "undef" THEN "Undefined"
    ELSE IF h[thing.n].kind \in {"Object", "Null", "Custom", "Symbolic"} THEN "Object"
    ELSE h[thing.n].kind

HasProp(node, key) == \E i \in DOMAIN node.props : node.props[i].k = key

GetProp(node, key) ==
    IF HasProp(node, key)
    THEN node.props[CHOOSE i \in DOMAIN node.props : node.props[i].k = key].v
    ELSE Undef

SetProp(node, key, val) ==
    IF HasProp(node, key)
    THEN [node EXCEPT !.props =
            [i \in DOMAIN node.props |->
                IF node.props[i].k = key THEN [k |-> key, v |-> val] ELSE node.props[i]]]
    ELSE [node EXCEPT !.props = Append(@, [k |-> key, v |-> val])]

\* thing[index] = val on an array: the slots between the old length and index are holes
SetIndex(node, index, val) ==
    LET len == IF index + 1 > Len(node.items) THEN index + 1 ELSE Len(node.items)
    IN [node EXCEPT !.items =
          [i \in 1..len |->
              IF i = index + 1 THEN [k |-> Undef, v |-> val]
              ELSE IF i <= Len(node.items) THEN node.items[i]
              ELSE [k |-> Undef, v |-> Hole]]]

(***************************************************************************)
(* The identity keyed Maps of one call, in insertion order.                *)
(***************************************************************************)
MapHas(m, key) == \E i \in DOMAIN m : m[i].k = SameValueZero(key)

MapIdx(m, key) == CHOOSE i \in DOMAIN m : m[i].k = SameValueZero(key)

NaN == 0 - 1

\* m.get(key): undefined is read as NaN by the additions that follow
MapGet(m, key) == IF MapHas(m, key) THEN m[MapIdx(m, key)].v ELSE NaN

MapSet(m, key, val) ==
    IF MapHas(m, key)
    THEN [i \in DOMAIN m |-> IF i = MapIdx(m, key) THEN [k |-> m[i].k, v |-> val] ELSE m[i]]
    ELSE Append(m, [k |-> SameValueZero(key), v |-> val])

MapDelete(m, key) ==
    IF MapHas(m, key)
    THEN LET i == MapIdx(m, key) IN SubSeq(m, 1, i - 1) \o SubSeq(m, i + 1, Len(m))
    ELSE m

Plus1(c) == IF c = NaN THEN NaN ELSE c + 1

(***************************************************************************)
(* JSON.parse of the text a toJSON() returned, for the texts the inputs    *)
(* carry: a decimal numeral parses to its number, a text of letters (other *)
(* than a JSON keyword) is a SyntaxError.                                  *)
(***************************************************************************)
RECURSIVE StrNat(_)
StrNat(cs) ==
    IF cs = <<>> THEN 0
    ELSE 10 * StrNat(SubSeq(cs, 1, Len(cs) - 1))
         + ((CHOOSE d \in DOMAIN digits : digits[d] = cs[Len(cs)]) - 1)

JsonParse(cs) ==
    IF /\ cs # <<>>
       /\ \A i \in DOMAIN cs : cs[i] \in Range(digits)
       /\ (Len(cs) = 1 \/ cs[1] # "0")
    THEN [ok |-> TRUE, v |-> Num(StrNat(cs))]
    ELSE [ok |-> FALSE, v |-> Undef]

(***************************************************************************)
(* walk: the canonicalizing pass.  st is the state of the call that walk   *)
(* reads and writes: the heap, counts, mapObjToJSON (cache), logNum, the   *)
(* number of messages handed to the reporter, the exception that ended the *)
(* call (err), and the number of entry arrays Array.from made of maps.     *)
(***************************************************************************)
NoIndex == 0 - 1

\* log(message), lines 31-36
log(st) ==
    IF st.logNum < logLimit
    THEN [st EXCEPT !.reported = @ + 1, !.logNum = @ + 1]
    ELSE st

\* parent[key][index] = json / parent[key] = json, lines 104-107.  The file is
\* an ES module, so it runs in strict mode: a write to a property of a
\* primitive raises, as a read or write on undefined always does.
Splice(st, parent, key, index, json) ==
    IF parent.t # "ref" THEN [st EXCEPT !.err = "TypeError"]
    ELSE IF index = NoIndex
    THEN [st EXCEPT !.heap[parent.n] = SetProp(@, key, json)]
    ELSE LET tgt == GetProp(st.heap[parent.n], key)
         IN IF tgt.t = "ref"
            THEN IF st.heap[tgt.n].kind = "Array"
                 THEN [st EXCEPT !.heap[tgt.n] = SetIndex(@, index, json)]
                 ELSE [st EXCEPT !.heap[tgt.n] = SetProp(@, NatStr(index), json)]
            ELSE IF tgt.t = "fn" THEN st
            ELSE [st EXCEPT !.err = "TypeError"]

\* the toJSON branch of walk, lines 73-109
walkToJSON(st, thing, parent, key, index) ==
    LET st1 == [st EXCEPT !.counts = MapDelete(@, thing)]
    IN IF MapHas(st1.cache, thing)
       THEN LET json == MapGet(st1.cache, thing)
                st2 == [st1 EXCEPT !.counts = MapSet(@, json, Plus1(MapGet(@, json)))]
            IN Splice(st2, parent, key, index, json)
       ELSE LET raw == st1.heap[thing.n].hook
                parsed == JsonParse(raw.s)
                json == IF getType(st1.heap, raw) = "String"
                        THEN IF parsed.ok THEN parsed.v ELSE thing
                        ELSE raw
                st2 == [st1 EXCEPT !.cache = MapSet(@, thing, json),
                                   !.counts = MapSet(@, json, 1)]
            IN Splice(st2, parent, key, index, json)

RECURSIVE walk(_, _, _, _, _)
RECURSIVE walkArray(_, _, _, _, _, _)
RECURSIVE walkSet(_, _, _, _)
RECURSIVE walkMap(_, _, _, _)
RECURSIVE walkKeys(_, _, _)

\* function walk, lines 39-129
walk(st, thing, parent, key, index) ==
    IF st.err # "none" THEN st
    ELSE IF thing.t = "fn" THEN [st EXCEPT !.reported = @ + 1]
    ELSE IF MapHas(st.counts, thing)
    THEN [st EXCEPT !.counts = MapSet(@, thing, Plus1(MapGet(@, thing)))]
    ELSE LET st1 == [st EXCEPT !.counts = MapSet(@, thing, 1)]
             node == st1.heap[thing.n]
             type == getType(st1.heap, thing)
         IN IF isPrimitive(thing) THEN st1
            ELSE IF type \in {"Number", "String", "Boolean", "Date", "RegExp"} THEN st1
            ELSE IF type = "Array"
            THEN walkArray(st1, thing, 1, Len(node.items), parent, key)
            ELSE IF type = "Set" THEN walkSet(st1, node.items, parent, key)
            ELSE IF type = "Map" THEN walkMap(st1, node.items, parent, key)
            ELSE IF node.hook # NoHook THEN walkToJSON(st1, thing, parent, key, index)
            ELSE IF node.kind = "Custom" THEN log(st1)
            ELSE IF node.kind = "Symbolic" THEN log(st1)
            ELSE walkKeys(st1, thing, [i \in DOMAIN node.props |-> node.props[i].k])

\* thing.forEach((item, index) => walk(item, parent, key, index)), line 64:
\* the indices below the length at the start, each read when it is reached,
\* the absent ones skipped
walkArray(st, thing, i, len, parent, key) ==
    IF i > len \/ st.err # "none" THEN st
    ELSE LET items == st.heap[thing.n].items
             present == i <= Len(items) /\ items[i].v # Hole
         IN walkArray(IF present THEN walk(st, items[i].v, parent, key, i - 1) ELSE st,
                      thing, i + 1, len, parent, key)

\* Array.from(thing).forEach(item => walk(item, parent, key, undefined)) of a
\* set, line 69
walkSet(st, members, parent, key) ==
    IF members = <<>> \/ st.err # "none" THEN st
    ELSE walkSet(walk(st, Head(members).v, parent, key, NoIndex),
                 Tail(members), parent, key)

\* the same line for a map: each item is a fresh [key, value] array, which
\* walk counts and then walks as an array, lines 45-50 and 64
walkMap(st, members, parent, key) ==
    IF members = <<>> \/ st.err # "none" THEN st
    ELSE LET st1 == [st EXCEPT !.counts = MapSet(@, Tmp(st.tmp), 1), !.tmp = @ + 1]
             st2 == walk(st1, Head(members).k, parent, key, 0)
             st3 == walk(st2, Head(members).v, parent, key, 1)
         IN walkMap(st3, Tail(members), parent, key)

\* Object.keys(thing).forEach(key => walk(thing[key], thing, key, undefined)),
\* line 124
walkKeys(st, thing, keys) ==
    IF keys = <<>> \/ st.err # "none" THEN st
    ELSE walkKeys(walk(st, GetProp(st.heap[thing.n], Head(keys)), thing, Head(keys), NoIndex),
                  thing, Tail(keys))

(***************************************************************************)
(* Naming: the entries of counts above 1, by descending count (the sort is *)
(* stable), get getName(0), getName(1), ...                                *)
(***************************************************************************)
reserved ==
    { <<"d","o">>, <<"i","f">>, <<"i","n">>, <<"f","o","r">>, <<"i","n","t">>, <<"l","e","t">>,
      <<"n","e","w">>, <<"t","r","y">>, <<"v","a","r">>, <<"b","y","t","e">>, <<"c","a","s","e">>,
      <<"c","h","a","r">>, <<"e","l","s","e">>, <<"e","n","u","m">>, <<"g","o","t","o">>,
      <<"l","o","n","g">>, <<"t","h","i","s">>, <<"v","o","i","d">>, <<"w","i","t","h">>,
      <<"a","w","a","i","t">>, <<"b","r","e","a","k">>, <<"c","a","t","c","h">>,
      <<"c","l","a","s","s">>, <<"c","o","n","s","t">>, <<"f","i","n","a","l">>,
      <<"f","l","o","a","t">>, <<"s","h","o","r","t">>, <<"s","u","p","e","r">>,
      <<"t","h","r","o","w">>, <<"w","h","i","l","e">>, <<"y","i","e","l","d">>,
      <<"d","e","l","e","t","e">>, <<"d","o","u","b","l","e">>, <<"e","x","p","o","r","t">>,
      <<"i","m","p","o","r","t">>, <<"n","a","t","i","v","e">>, <<"r","e","t","u","r","n">>,
      <<"s","w","i","t","c","h">>, <<"t","h","r","o","w","s">>, <<"t","y","p","e","o","f">>,
      <<"b","o","o","l","e","a","n">>, <<"d","e","f","a","u","l","t">>,
      <<"e","x","t","e","n","d","s">>, <<"f","i","n","a","l","l","y">>,
      <<"p","a","c","k","a","g","e">>, <<"p","r","i","v","a","t","e">>,
      <<"a","b","s","t","r","a","c","t">>, <<"c","o","n","t","i","n","u","e">>,
      <<"d","e","b","u","g","g","e","r">>, <<"f","u","n","c","t","i","o","n">>,
      <<"v","o","l","a","t","i","l","e">>, <<"i","n","t","e","r","f","a","c","e">>,
      <<"p","r","o","t","e","c","t","e","d">>, <<"t","r","a","n","s","i","e","n","t">>,
      <<"i","m","p","l","e","m","e","n","t","s">>, <<"i","n","s","t","a","n","c","e","o","f">>,
      <<"s","y","n","c","h","r","o","n","i","z","e","d">> }

\* function getName, lines 261-270
RECURSIVE getNameLoop(_, _)
getNameLoop(num, name) ==
    LET name1 == << chars[(num % Len(chars)) + 1] >> \o name
        num1 == (num \div Len(chars)) - 1
    IN IF num1 >= 0 THEN getNameLoop(num1, name1) ELSE name1

getName(num) ==
    LET name == getNameLoop(num, <<>>)
    IN IF name \in reserved THEN Append(name, "0") ELSE name

\* a filter that lets through the entries counted more than twice only
RECURSIVE RepeatedMoreThanTwice(_)
RepeatedMoreThanTwice(m) ==
    IF m = <<>> THEN <<>>
    ELSE IF Head(m).v > 2 THEN <<Head(m)>> \o RepeatedMoreThanTwice(Tail(m))
    ELSE RepeatedMoreThanTwice(Tail(m))

\* .filter(entry => entry[1] > 1)
RECURSIVE Repeated(_)
Repeated(m) ==
    IF m = <<>> THEN <<>>
    ELSE IF Head(m).v > 1 THEN <<Head(m)>> \o Repeated(Tail(m))
    ELSE Repeated(Tail(m))

\* .sort((a, b) => b[1] - a[1]): the first entry of the greatest count leads
RECURSIVE SortByCount(_)
SortByCount(m) ==
    IF m = <<>> THEN <<>>
    ELSE LET i == CHOOSE j \in DOMAIN m :
                    /\ \A l \in DOMAIN m : m[l].v <= m[j].v
                    /\ \A l \in 1..(j - 1) : m[l].v < m[j].v
         IN <<m[i]>> \o SortByCount(SubSeq(m, 1, i - 1) \o SubSeq(m, i + 1, Len(m)))

\* lines 133-139
AssignNames(m) ==
    LET sorted == SortByCount(Repeated(m))
    IN [i \in DOMAIN sorted |-> [k |-> sorted[i].k, v |-> getName(i - 1)]]

(***************************************************************************)
(* Escaping, lines 3-18 and 289-333.  Of the twelve characters of escaped  *)
(* the model carries the eight a TLA+ string can spell.                    *)
(***************************************************************************)
unsafeChars == { "<", ">", "\f", "\n", "\r", "\t" }

escapedKeys == { "<", ">", "/", "\\", "\f", "\n", "\r", "\t" }

escaped(c) ==
    CASE c = "<" -> "\\u003C"
      [] c = ">" -> "\\u003E"
      [] c = "/" -> "\\u002F"
      [] c = "\\" -> "\\\\"
      [] c = "\f" -> "\\f"
      [] c = "\n" -> "\\n"
      [] c = "\r" -> "\\r"
      [] c = "\t" -> "\\t"

\* function escapeUnsafeChar, lines 289-291
escapeUnsafeChar(c) == IF c \in escapedKeys THEN escaped(c) ELSE c

\* function escapeUnsafeChars, lines 293-295: str.replace(unsafeChars, ...)
escapeUnsafeChars(txt) ==
    [i \in DOMAIN txt |-> IF txt[i] \in unsafeChars THEN escapeUnsafeChar(txt[i]) ELSE txt[i]]

\* JSON.stringify of a string: quotes, and the short escapes of the quote, the
\* backslash and the control characters
JsonStringify(cs) ==
    <<"\"">> \o
    [i \in DOMAIN cs |->
        CASE cs[i] = "\"" -> "\\\""
          [] cs[i] = "\\" -> "\\\\"
          [] cs[i] = "\f" -> "\\f"
          [] cs[i] = "\n" -> "\\n"
          [] cs[i] = "\r" -> "\\r"
          [] cs[i] = "\t" -> "\\t"
          [] OTHER -> cs[i]]
    \o <<"\"">>

\* /^[_$a-zA-Z][_$a-zA-Z0-9]*$/.test(key)
IsIdentifier(key) ==
    /\ key # <<>>
    /\ key[1] \in Range(chars)
    /\ \A i \in DOMAIN key : key[i] \in Range(chars) \cup Range(digits)

\* function safeKey, lines 297-299
safeKey(key) == IF IsIdentifier(key) THEN key ELSE escapeUnsafeChars(JsonStringify(key))

\* function safeProp, lines 301-303
safeProp(key) ==
    IF IsIdentifier(key) THEN <<".">> \o key
    ELSE <<"[">> \o escapeUnsafeChars(JsonStringify(key)) \o <<"]">>

\* function stringifyString, lines 305-333 (the inputs carry no surrogates)
stringifyString(cs) ==
    <<"\"">> \o
    [i \in DOMAIN cs |->
        IF cs[i] = "\"" THEN "\\\""
        ELSE IF cs[i] \in escapedKeys THEN escaped(cs[i])
        ELSE cs[i]]
    \o <<"\"">>

\* function stringifyPrimitive, lines 276-283: String(thing) of a natural
\* number has no "0." for the replace to strip
stringifyPrimitive(thing) ==
    IF thing.t = "str" THEN stringifyString(thing.s)
    ELSE IF thing.t = "undef" THEN <<"void 0">>
    ELSE IF thing.t = "negzero" THEN <<"-0">>
    ELSE NatStr(thing.n)

(***************************************************************************)
(* stringify, lines 141-194.  A rendering is [txt, err, ids, inl]: the     *)
(* text, the exception that ended it, and beside the text the values       *)
(* rendered by their identifier (ids) and the objects and callables        *)
(* rendered by their structure (inl).  d is the call stack left: devalue   *)
(* changes neither the heap nor names while it renders, so a rendering     *)
(* deeper than every chain of distinct objects never returns and ends in   *)
(* the engine's RangeError.                                                *)
(***************************************************************************)
Text(txt) == [txt |-> txt, err |-> "none", ids |-> <<>>, inl |-> <<>>]

Overflow == [txt |-> <<>>, err |-> "RangeError", ids |-> <<>>, inl |-> <<>>]

FirstErr(rs) ==
    IF \E i \in DOMAIN rs : rs[i].err # "none"
    THEN rs[CHOOSE i \in DOMAIN rs :
               rs[i].err # "none" /\ \A j \in 1..(i - 1) : rs[j].err = "none"].err
    ELSE "none"

\* pre + rs.join(sep) + post
Joined(pre, rs, sep, post) ==
    [txt |-> pre \o Join([i \in DOMAIN rs |-> rs[i].txt], sep) \o post,
     err |-> FirstErr(rs),
     ids |-> Flatten([i \in DOMAIN rs |-> rs[i].ids]),
     inl |-> Flatten([i \in DOMAIN rs |-> rs[i].inl])]

Inline(thing, r) == [r EXCEPT !.inl = <<thing>> \o @]

StackDepth == 2 * Len(heap) + 3

RECURSIVE stringify(_, _)
stringify(thing, d) ==
    IF d = 0 THEN Overflow
    ELSE IF MapHas(names, thing)
    THEN [Text(MapGet(names, thing)) EXCEPT !.ids = <<SameValueZero(thing)>>]
    ELSE IF isPrimitive(thing) THEN Text(stringifyPrimitive(thing))
    ELSE IF thing.t = "fn" THEN Inline(thing, Text(<<"{", "}">>))
    ELSE LET node == heap[thing.n]
             type == getType(heap, thing)
             keys == [i \in DOMAIN node.props |-> node.props[i].k]
         IN Inline(thing,
            CASE type \in {"Number", "String", "Boolean"} ->
                   Joined(<<"Object(">>, <<stringify(node.prim, d - 1)>>, ",", <<")">>)
              [] type = "RegExp" -> Text(<<"/">> \o node.prim.s \o <<"/">>)
              [] type = "Date" -> Text(<<"new Date(">> \o NatStr(node.prim.n) \o <<")">>)
              [] type = "Array" ->
                   Joined(<<"[">>,
                          [i \in DOMAIN node.items |->
                              IF node.items[i].v = Hole THEN Text(<<>>)
                              ELSE stringify(node.items[i].v, d - 1)],
                          ",",
                          IF Len(node.items) = 0 \/ node.items[Len(node.items)].v # Hole
                          THEN <<"]">> ELSE <<",", "]">>)
              [] type = "Set" ->
                   Joined(<<"new Set([">>,
                          [i \in DOMAIN node.items |-> stringify(node.items[i].v, d - 1)],
                          ",", <<"])">>)
              [] type = "Map" ->
                   Joined(<<"new Map([">>,
                          [i \in DOMAIN node.items |->
                              IF d = 1 THEN Overflow
                              ELSE Joined(<<"[">>,
                                          << stringify(node.items[i].k, d - 2),
                                             stringify(node.items[i].v, d - 2) >>,
                                          ",", <<"]">>)],
                          ",", <<"])">>)
              [] OTHER ->
                   IF node.hook # NoHook
                   THEN LET parsed == JsonParse(node.hook.s)
                            json == IF getType(heap, node.hook) = "String" /\ parsed.ok
                                    THEN parsed.v ELSE node.hook
                        IN stringify(json, d - 1)
                   ELSE IF node.kind = "Null"
                   THEN IF keys = <<>> THEN Text(<<"Object.create(null)">>)
                        ELSE Joined(<<"Object.create(null,{">>,
                                    [i \in DOMAIN keys |->
                                        Joined(safeKey(keys[i])
                                                 \o <<":{writable:true,enumerable:true,value:">>,
                                               <<stringify(node.props[i].v, d - 1)>>,
                                               ",", <<"}">>)],
                                    ",", <<"})">>)
                   ELSE Joined(<<"{">>,
                               [i \in DOMAIN keys |->
                                   Joined(safeKey(keys[i]) \o <<":">>,
                                          <<stringify(node.props[i].v, d - 1)>>,
                                          ",", <<>>)],
                               ",", <<"}">>))

(***************************************************************************)
(* The wrapper, lines 198-258: one parameter, one shell value and the      *)
(* population statements of every named value, in naming order.            *)
(***************************************************************************)
\* values.push(...) of one named thing, lines 206-246
ShellValue(thing) ==
    IF isPrimitive(thing) THEN Text(stringifyPrimitive(thing))
    ELSE LET node == heap[thing.n]
             type == getType(heap, thing)
         IN CASE type \in {"Number", "String", "Boolean"} ->
                   Joined(<<"Object(">>, <<stringify(node.prim, StackDepth)>>, ",", <<")">>)
              [] type = "RegExp" -> Text(<<"/">> \o node.prim.s \o <<"/">>)
              [] type = "Date" -> Text(<<"new Date(">> \o NatStr(node.prim.n) \o <<")">>)
              [] type = "Array" -> Text(<<"Array(">> \o NatStr(Len(node.items)) \o <<")">>)
              [] type = "Set" -> Text(<<"new Set">>)
              [] type = "Map" -> Text(<<"new Map">>)
              [] OTHER -> Text(IF node.kind = "Null" THEN <<"Object.create(null)">>
                               ELSE <<"{}">>)

\* the elements of a sequence of renderings that are present
RECURSIVE Present(_)
Present(rs) ==
    IF rs = <<>> THEN <<>>
    ELSE IF Head(rs).err = "absent" THEN Present(Tail(rs))
    ELSE <<Head(rs)>> \o Present(Tail(rs))

\* statements.push(...) of one named thing, lines 228-249
Population(name, thing) ==
    IF isPrimitive(thing) THEN <<>>
    ELSE LET node == heap[thing.n]
             type == getType(heap, thing)
         IN CASE type \in {"Number", "String", "Boolean", "RegExp", "Date"} -> <<>>
              [] type = "Array" ->
                   Present([i \in DOMAIN node.items |->
                       IF node.items[i].v = Hole THEN [Overflow EXCEPT !.err = "absent"]
                       ELSE Joined(name \o <<"[">> \o NatStr(i - 1) \o <<"]", "=">>,
                                   <<stringify(node.items[i].v, StackDepth)>>, ",", <<>>)])
              [] type = "Set" ->
                   << Joined(name \o <<".">>,
                             [i \in DOMAIN node.items |->
                                 Joined(<<"add(">>,
                                        <<stringify(node.items[i].v, StackDepth)>>,
                                        ",", <<")">>)],
                             ".", <<>>) >>
              [] type = "Map" ->
                   << Joined(name \o <<".">>,
                             [i \in DOMAIN node.items |->
                                 Joined(<<"set(">>,
                                        << stringify(node.items[i].k, StackDepth),
                                           stringify(node.items[i].v, StackDepth) >>,
                                        ", ", <<")">>)],
                             ".", <<>>) >>
              [] OTHER ->
                   [i \in DOMAIN node.props |->
                       Joined(name \o safeProp(node.props[i].k) \o <<"=">>,
                              <<stringify(node.props[i].v, StackDepth)>>, ",", <<>>)]

\* `(function(${params}){${statements}}(${values}))`, lines 253-255
Wrapper(ps, sts, vals) ==
    <<"(function(">> \o Join(ps, ",") \o <<"){">>
      \o Join([i \in DOMAIN sts |-> sts[i].txt], ";")
      \o <<"}(">> \o Join([i \in DOMAIN vals |-> vals[i].txt], ",") \o <<"))">>

(***************************************************************************)
(* The inputs: value graphs of at most MaxNodes objects, every one of them *)
(* reachable from the root, holding at most MaxEdges slots between them.   *)
(***************************************************************************)
Shell(kind) == Obj(kind, <<>>, <<>>, Undef, NoHook)

SlotKinds == {"Array", "Set", "Map", "Object", "Null", "Custom", "Symbolic"}

\* what a toJSON() of the inputs returns: an object, a numeral or a word
HookResults(n) == { Ref(j) : j \in 1..n } \cup { Str(<<"0">>), Str(<<"x">>) }

Templates(n) ==
    { Shell(k) : k \in SlotKinds }
    \cup { Obj("Number", <<>>, <<>>, Num(0), NoHook),
           Obj("Date", <<>>, <<>>, Num(0), NoHook),
           Obj("RegExp", <<>>, <<>>, Str(<<"<">>), NoHook) }
    \cup { Obj("Custom", <<>>, <<>>, Undef, r) : r \in HookResults(n) }

SlotValues(n) == { Ref(j) : j \in 1..n } \cup { Num(0), NegZero, Fn, Hole }

\* the objects that hold slots: the containers and the records without toJSON
Holders(h) == { i \in DOMAIN h : h[i].kind \in SlotKinds /\ h[i].hook = NoHook }

Slots(h) == [src : Holders(h), val : SlotValues(Len(h))]

\* the key of the i-th property of a record and of the i-th entry of a map
PropKey(i) == << chars[i] >>
EntryKey(i) == Str(<< chars[10 + i] >>)

AddSlot(node, val) ==
    CASE node.kind \in {"Array", "Set"} ->
           [node EXCEPT !.items = Append(@, [k |-> Undef, v |-> val])]
      [] node.kind = "Map" ->
           [node EXCEPT !.items = Append(@, [k |-> EntryKey(Len(@) + 1), v |-> val])]
      [] OTHER ->
           [node EXCEPT !.props = Append(@, [k |-> PropKey(Len(@) + 1), v |-> val])]

RECURSIVE Build(_, _)
Build(h, slots) ==
    IF slots = <<>> THEN h
    ELSE Build([h EXCEPT ![Head(slots).src] = AddSlot(@, Head(slots).val)], Tail(slots))

\* the values an object holds or converts to
Children(node) ==
    { node.items[i].v : i \in DOMAIN node.items }
    \cup { node.items[i].k : i \in DOMAIN node.items }
    \cup { node.props[i].v : i \in DOMAIN node.props }
    \cup { node.hook }

\* the objects in the order a breadth-first search from the root meets them
RECURSIVE FirstMet(_, _, _)
FirstMet(h, i, met) ==
    IF i > Len(met) THEN met
    ELSE LET node == h[met[i]]
             seq == <<node.hook>>
                      \o Flatten([j \in DOMAIN node.items |-> <<node.items[j].k, node.items[j].v>>])
                      \o [j \in DOMAIN node.props |-> node.props[j].v]
             new == [j \in DOMAIN seq |->
                        IF /\ seq[j].t = "ref"
                           /\ seq[j].n \notin Range(met)
                           /\ \A l \in 1..(j - 1) : seq[l] # seq[j]
                        THEN <<seq[j].n>> ELSE <<>>]
         IN FirstMet(h, i + 1, met \o Flatten(new))

\* a graph a caller can build: holes only in arrays, the members of a set
\* distinct and never -0, no object the root does not reach.  The slots are
\* listed object by object and the objects numbered as a search from the root
\* meets them: devalue reads no object's number.
WellFormed(h, slots) ==
    /\ \A i \in DOMAIN slots :
          /\ slots[i].val = Hole => h[slots[i].src].kind = "Array"
          /\ h[slots[i].src].kind = "Set" =>
                /\ slots[i].val # NegZero
                /\ \A j \in 1..(i - 1) : slots[j] # slots[i]
          /\ i > 1 => slots[i - 1].src <= slots[i].src
    /\ FirstMet(Build(h, slots), 1, <<1>>) = [i \in DOMAIN h |-> i]

PrimitiveRoots == { Undef, Num(0), NegZero, Str(<<"<", "/">>), Fn }

StartOfCall ==
    /\ heap = input
    /\ pc = "start"
    /\ counts = <<>>
    /\ mapObjToJSON = <<>>
    /\ logNum = 0
    /\ reported = 0
    /\ names = <<>>
    /\ str = Text(<<>>)
    /\ params = <<>>
    /\ statements = <<>>
    /\ values = <<>>
    /\ result = <<>>
    /\ error = "none"

Init ==
    /\ logLimit = MaxLogLimit
    /\ \/ /\ root \in PrimitiveRoots
          /\ input = <<>>
       \/ /\ root = Ref(1)
          /\ \E n \in 1..MaxNodes :
               \E h \in [1..n -> Templates(n)] :
                 \E e \in 0..MaxEdges :
                   \E slots \in [1..e -> Slots(h)] :
                     /\ WellFormed(h, slots)
                     /\ input = Build(h, slots)
    /\ StartOfCall

(***************************************************************************)
(* devalue(value), lines 25-259, in its four steps.  An exception ends the *)
(* call where it is raised.                                                *)
(***************************************************************************)
\* walk(value, undefined, undefined, undefined), line 131
Walk ==
    /\ pc = "start"
    /\ LET st == walk([heap |-> heap, counts |-> counts, cache |-> mapObjToJSON,
                       logNum |-> logNum, reported |-> reported, err |-> "none",
                       tmp |-> 1],
                      root, Undef, <<>>, NoIndex)
       IN /\ heap' = st.heap
          /\ counts' = st.counts
          /\ mapObjToJSON' = st.cache
          /\ logNum' = st.logNum
          /\ reported' = st.reported
          /\ error' = st.err
          /\ pc' = IF st.err = "none" THEN "walked" ELSE "thrown"
    /\ UNCHANGED <<input, root, logLimit, names, str, params, statements, values, result>>

\* lines 133-139
Name ==
    /\ pc = "walked"
    /\ names' = AssignNames(counts)
    /\ pc' = "named"
    /\ UNCHANGED <<input, heap, root, counts, mapObjToJSON, logNum, logLimit, reported,
                   str, params, statements, values, result, error>>

\* const str = stringify(value), line 196
Stringify ==
    /\ pc = "named"
    /\ str' = stringify(root, StackDepth)
    /\ error' = str'.err
    /\ pc' = IF str'.err = "none" THEN "rendered" ELSE "thrown"
    /\ UNCHANGED <<input, heap, root, counts, mapObjToJSON, logNum, logLimit, reported,
                   names, params, statements, values, result>>

\* lines 198-258
Return ==
    /\ pc = "rendered"
    /\ LET vals == [i \in DOMAIN names |-> ShellValue(names[i].k)]
           sts == Flatten([i \in DOMAIN names |-> Population(names[i].v, names[i].k)])
                    \o << Joined(<<"return ">>, <<str>>, ",", <<>>) >>
           err == FirstErr(vals \o sts)
       IN IF names = <<>>
          THEN /\ result' = str.txt
               /\ pc' = "done"
               /\ UNCHANGED <<params, statements, values, error>>
          ELSE /\ params' = [i \in DOMAIN names |-> names[i].v]
               /\ values' = vals
               /\ statements' = sts
               /\ error' = err
               /\ pc' = IF err = "none" THEN "done" ELSE "thrown"
               /\ result' = IF err = "none" THEN Wrapper(params', sts, vals) ELSE <<>>
    /\ UNCHANGED <<input, heap, root, counts, mapObjToJSON, logNum, logLimit, reported,
                   names, str>>

Next == Walk \/ Name \/ Stringify \/ Return

Spec == Init /\ [][Next]_vars

(***************************************************************************)
(* The inputs of the conversion splice: a record at the root, containers   *)
(* and records below it, and objects with a toJSON() in their slots; one   *)
(* object and one slot more than the inputs of Spec, of fewer kinds.       *)
(***************************************************************************)
SpliceTemplates(n) ==
    { Shell(k) : k \in {"Array", "Set", "Map", "Object", "Null"} }
    \cup { Obj("Custom", <<>>, <<>>, Undef, r) : r \in HookResults(n) }

InitSplice ==
    /\ logLimit = MaxLogLimit
    /\ root = Ref(1)
    /\ \E n \in 2..(MaxNodes + 1) :
         \E h \in [1..n -> SpliceTemplates(n)] :
           \E e \in 1..(MaxEdges + 1) :
             \E slots \in [1..e -> [src : Holders(h),
                                    val : { Ref(j) : j \in 1..n } \cup { Num(0) }]] :
               /\ h[1].kind \in {"Object", "Null"}
               /\ \E i \in 1..n : h[i].hook # NoHook
               /\ WellFormed(h, slots)
               /\ input = Build(h, slots)
    /\ StartOfCall

SpecSplice == InitSplice /\ [][Next]_vars

(***************************************************************************)
(* The engine that evaluates the returned text: the expressions and        *)
(* statements of the language that devalue's templates are written in,     *)
(* read piece by piece.  An evaluation is [v, p, h, err]: the value, the   *)
(* place behind what was read, the heap of the objects made so far, and    *)
(* the SyntaxError or ReferenceError that ended it.                        *)
(***************************************************************************)
Tok(toks, p) == IF p \in DOMAIN toks THEN toks[p] ELSE ""

Ev(v, p, h) == [v |-> v, p |-> p, h |-> h, err |-> "none"]

EvErr(e, p, h) == [v |-> Undef, p |-> p, h |-> h, err |-> e]

Alloc(r, node) == [r EXCEPT !.h = Append(@, node), !.v = Ref(Len(r.h) + 1)]

\* the end of the run of identifier characters that starts at p
RECURSIVE IdentEnd(_, _)
IdentEnd(toks, p) ==
    IF Tok(toks, p) \in Range(chars) \cup Range(digits) THEN IdentEnd(toks, p + 1) ELSE p

RECURSIVE DigitsEnd(_, _)
DigitsEnd(toks, p) == IF Tok(toks, p) \in Range(digits) THEN DigitsEnd(toks, p + 1) ELSE p

\* the characters of a string literal whose opening quote is at p - 1:
\* [cs, p behind the closing quote, ok]
Unescape(piece) ==
    CASE piece = "\\\"" -> "\""
      [] piece = "\\\\" -> "\\"
      [] piece = "\\u003C" -> "<"
      [] piece = "\\u003E" -> ">"
      [] piece = "\\u002F" -> "/"
      [] piece = "\\f" -> "\f"
      [] piece = "\\n" -> "\n"
      [] piece = "\\r" -> "\r"
      [] piece = "\\t" -> "\t"
      [] OTHER -> piece

RECURSIVE StringBody(_, _, _)
StringBody(toks, p, cs) ==
    LET t == Tok(toks, p)
    IN IF t = "\"" THEN [cs |-> cs, p |-> p + 1, ok |-> TRUE]
       ELSE IF t \in {"", "\\", "\n", "\r"} THEN [cs |-> cs, p |-> p, ok |-> FALSE]
       ELSE StringBody(toks, p + 1, Append(cs, Unescape(t)))

\* the source of a pattern literal whose opening slash is at p - 1
RECURSIVE PatternBody(_, _, _)
PatternBody(toks, p, cs) ==
    LET t == Tok(toks, p)
    IN IF t = "/" THEN [cs |-> cs, p |-> p + 1, ok |-> cs # <<>>]
       ELSE IF t \in {"", "\n", "\r"} THEN [cs |-> cs, p |-> p, ok |-> FALSE]
       ELSE IF t = "\\" /\ Tok(toks, p + 1) # ""
       THEN PatternBody(toks, p + 2, cs \o <<t, Tok(toks, p + 1)>>)
       ELSE PatternBody(toks, p + 1, Append(cs, t))

\* a property name: an identifier or a string literal
PropName(toks, p) ==
    IF Tok(toks, p) \in Range(chars)
    THEN [cs |-> SubSeq(toks, p, IdentEnd(toks, p) - 1), p |-> IdentEnd(toks, p), ok |-> TRUE]
    ELSE IF Tok(toks, p) = "\"" THEN StringBody(toks, p + 1, <<>>)
    ELSE [cs |-> <<>>, p |-> p, ok |-> FALSE]

\* set.add(v) and map.set(k, v)
SetAdd(node, v) ==
    IF \E i \in DOMAIN node.items : node.items[i].v = SameValueZero(v) THEN node
    ELSE [node EXCEPT !.items = Append(@, [k |-> Undef, v |-> SameValueZero(v)])]

MapPut(node, k, v) ==
    IF \E i \in DOMAIN node.items : node.items[i].k = SameValueZero(k)
    THEN [node EXCEPT !.items =
            [i \in DOMAIN @ |-> IF @[i].k = SameValueZero(k)
                                THEN [k |-> @[i].k, v |-> v] ELSE @[i]]]
    ELSE [node EXCEPT !.items = Append(@, [k |-> SameValueZero(k), v |-> v])]

RECURSIVE AddAll(_, _)
AddAll(node, vs) == IF vs = <<>> THEN node ELSE AddAll(SetAdd(node, Head(vs)), Tail(vs))

RECURSIVE PutAll(_, _)
PutAll(node, kvs) ==
    IF kvs = <<>> THEN node ELSE PutAll(MapPut(node, Head(kvs).k, Head(kvs).v), Tail(kvs))

RECURSIVE DefineAll(_, _)
DefineAll(node, kvs) ==
    IF kvs = <<>> THEN node ELSE DefineAll(SetProp(node, Head(kvs).k, Head(kvs).v), Tail(kvs))

RECURSIVE EvalExpr(_, _, _, _)
RECURSIVE EvalElements(_, _, _, _, _)
RECURSIVE EvalArguments(_, _, _, _, _, _)
RECURSIVE EvalEntries(_, _, _, _, _)
RECURSIVE EvalProperties(_, _, _, _, _, _)

\* the elements of an array literal behind "[": an elision is an absent slot
EvalElements(toks, p, env, h, acc) ==
    LET t == Tok(toks, p)
    IN IF t = "]" THEN [Ev(Undef, p + 1, h) EXCEPT !.v = acc]
       ELSE IF t = "," THEN EvalElements(toks, p + 1, env, h, Append(acc, [k |-> Undef, v |-> Hole]))
       ELSE LET r == EvalExpr(toks, p, env, h)
                acc1 == Append(acc, [k |-> Undef, v |-> r.v])
            IN IF r.err # "none" THEN r
               ELSE IF Tok(toks, r.p) = "," THEN EvalElements(toks, r.p + 1, env, r.h, acc1)
               ELSE IF Tok(toks, r.p) = "]" THEN [Ev(Undef, r.p + 1, r.h) EXCEPT !.v = acc1]
               ELSE EvErr("SyntaxError", r.p, r.h)

\* expressions apart by `sep` up to the piece `close`
EvalArguments(toks, p, env, h, ends, acc) ==
    IF Tok(toks, p) = ends.close /\ acc = <<>> THEN [Ev(Undef, p + 1, h) EXCEPT !.v = acc]
    ELSE LET r == EvalExpr(toks, p, env, h)
             acc1 == Append(acc, r.v)
         IN IF r.err # "none" THEN r
            ELSE IF Tok(toks, r.p) = ends.sep
            THEN EvalArguments(toks, r.p + 1, env, r.h, ends, acc1)
            ELSE IF Tok(toks, r.p) = ends.close
            THEN [Ev(Undef, r.p + 1, r.h) EXCEPT !.v = acc1]
            ELSE EvErr("SyntaxError", r.p, r.h)

\* the [key,value] entries of new Map([...]) up to "])"
EvalEntries(toks, p, env, h, acc) ==
    IF Tok(toks, p) = "])" /\ acc = <<>> THEN [Ev(Undef, p + 1, h) EXCEPT !.v = acc]
    ELSE IF Tok(toks, p) # "[" THEN EvErr("SyntaxError", p, h)
    ELSE LET k == EvalExpr(toks, p + 1, env, h)
             v == EvalExpr(toks, k.p + 1, env, k.h)
             acc1 == Append(acc, [k |-> k.v, v |-> v.v])
         IN IF k.err # "none" THEN k
            ELSE IF Tok(toks, k.p) # "," THEN EvErr("SyntaxError", k.p, k.h)
            ELSE IF v.err # "none" THEN v
            ELSE IF Tok(toks, v.p) # "]" THEN EvErr("SyntaxError", v.p, v.h)
            ELSE IF Tok(toks, v.p + 1) = "," THEN EvalEntries(toks, v.p + 2, env, v.h, acc1)
            ELSE IF Tok(toks, v.p + 1) = "])" THEN [Ev(Undef, v.p + 2, v.h) EXCEPT !.v = acc1]
            ELSE EvErr("SyntaxError", v.p + 1, v.h)

\* name `mid` value `post`, apart by ",", up to the piece `close`
EvalProperties(toks, p, env, h, form, acc) ==
    IF Tok(toks, p) = form.close /\ acc = <<>> THEN [Ev(Undef, p + 1, h) EXCEPT !.v = acc]
    ELSE LET name == PropName(toks, p)
             r == EvalExpr(toks, name.p + 1, env, h)
             q == IF form.post = "" THEN r.p ELSE r.p + 1
             acc1 == Append(acc, [k |-> name.cs, v |-> r.v])
         IN IF ~name.ok \/ Tok(toks, name.p) # form.mid THEN EvErr("SyntaxError", name.p, h)
            ELSE IF r.err # "none" THEN r
            ELSE IF form.post # "" /\ Tok(toks, r.p) # form.post
            THEN EvErr("SyntaxError", r.p, r.h)
            ELSE IF Tok(toks, q) = "," THEN EvalProperties(toks, q + 1, env, r.h, form, acc1)
            ELSE IF Tok(toks, q) = form.close THEN [Ev(Undef, q + 1, r.h) EXCEPT !.v = acc1]
            ELSE EvErr("SyntaxError", q, r.h)

EvalExpr(toks, p, env, h) ==
    LET t == Tok(toks, p)
    IN CASE t \in Range(chars) ->
              LET name == SubSeq(toks, p, IdentEnd(toks, p) - 1)
              IN IF \E i \in DOMAIN env : env[i].k = name
                 THEN Ev(env[CHOOSE i \in DOMAIN env : env[i].k = name].v, IdentEnd(toks, p), h)
                 ELSE EvErr("ReferenceError", p, h)
         [] t \in Range(digits) ->
              Ev(Num(StrNat(SubSeq(toks, p, DigitsEnd(toks, p) - 1))), DigitsEnd(toks, p), h)
         [] t = "-0" -> Ev(NegZero, p + 1, h)
         [] t = "void 0" -> Ev(Undef, p + 1, h)
         [] t = "\"" ->
              LET b == StringBody(toks, p + 1, <<>>)
              IN IF b.ok THEN Ev(Str(b.cs), b.p, h) ELSE EvErr("SyntaxError", b.p, h)
         [] t = "/" ->
              LET b == PatternBody(toks, p + 1, <<>>)
              IN IF b.ok THEN Alloc(Ev(Undef, b.p, h), Obj("RegExp", <<>>, <<>>, Str(b.cs), NoHook))
                 ELSE EvErr("SyntaxError", b.p, h)
         [] t = "Object(" ->
              LET r == EvalExpr(toks, p + 1, env, h)
              IN IF r.err # "none" THEN r
                 ELSE IF Tok(toks, r.p) # ")" THEN EvErr("SyntaxError", r.p, r.h)
                 ELSE IF r.v.t \in {"num", "negzero"}
                 THEN Alloc(Ev(Undef, r.p + 1, r.h), Obj("Number", <<>>, <<>>, r.v, NoHook))
                 ELSE IF r.v.t = "undef" THEN Alloc(Ev(Undef, r.p + 1, r.h), Shell("Object"))
                 ELSE IF r.v.t = "str"
                 THEN Alloc(Ev(Undef, r.p + 1, r.h), Obj("String", <<>>, <<>>, r.v, NoHook))
                 ELSE Ev(r.v, r.p + 1, r.h)
         [] t \in {"new Date(", "Array("} ->
              LET q == DigitsEnd(toks, p + 1)
                  k == StrNat(SubSeq(toks, p + 1, q - 1))
              IN IF q = p + 1 \/ Tok(toks, q) # ")" THEN EvErr("SyntaxError", q, h)
                 ELSE IF t = "new Date("
                 THEN Alloc(Ev(Undef, q + 1, h), Obj("Date", <<>>, <<>>, Num(k), NoHook))
                 ELSE Alloc(Ev(Undef, q + 1, h),
                            Obj("Array", <<>>, [i \in 1..k |-> [k |-> Undef, v |-> Hole]],
                                Undef, NoHook))
         [] t = "[" ->
              LET r == EvalElements(toks, p + 1, env, h, <<>>)
              IN IF r.err # "none" THEN r
                 ELSE Alloc(r, Obj("Array", <<>>, r.v, Undef, NoHook))
         [] t = "new Set([" ->
              LET r == EvalArguments(toks, p + 1, env, h, [sep |-> ",", close |-> "])"], <<>>)
              IN IF r.err # "none" THEN r ELSE Alloc(r, AddAll(Shell("Set"), r.v))
         [] t = "new Map([" ->
              LET r == EvalEntries(toks, p + 1, env, h, <<>>)
              IN IF r.err # "none" THEN r ELSE Alloc(r, PutAll(Shell("Map"), r.v))
         [] t = "new Set" -> Alloc(Ev(Undef, p + 1, h), Shell("Set"))
         [] t = "new Map" -> Alloc(Ev(Undef, p + 1, h), Shell("Map"))
         [] t = "Object.create(null)" -> Alloc(Ev(Undef, p + 1, h), Shell("Null"))
         [] t = "{}" -> Alloc(Ev(Undef, p + 1, h), Shell("Object"))
         [] t = "Object.create(null,{" ->
              LET r == EvalProperties(toks, p + 1, env, h,
                          [mid |-> ":{writable:true,enumerable:true,value:",
                           post |-> "}", close |-> "})"], <<>>)
              IN IF r.err # "none" THEN r ELSE Alloc(r, DefineAll(Shell("Null"), r.v))
         [] t = "{" ->
              LET r == EvalProperties(toks, p + 1, env, h,
                          [mid |-> ":", post |-> "", close |-> "}"], <<>>)
              IN IF r.err # "none" THEN r ELSE Alloc(r, DefineAll(Shell("Object"), r.v))
         [] OTHER -> EvErr("SyntaxError", p, h)

\* the values one object's slots hold, slot by slot
SlotSeq(node) ==
    Flatten([i \in DOMAIN node.items |-> <<node.items[i].k, node.items[i].v>>])
      \o [i \in DOMAIN node.props |-> node.props[i].v]

\* the first place at or behind p that holds the piece, or 0
RECURSIVE Find(_, _, _)
Find(toks, p, piece) ==
    IF p > Len(toks) THEN 0 ELSE IF toks[p] = piece THEN p ELSE Find(toks, p + 1, piece)

\* the chained .add(v) and .set(k, v) calls on one set or map, from p on
RECURSIVE EvalCalls(_, _, _, _, _)
EvalCalls(toks, p, env, h, target) ==
    LET t == Tok(toks, p)
        a == EvalExpr(toks, p + 1, env, h)
        b == EvalExpr(toks, a.p + 1, env, a.h)
        last == IF t = "add(" THEN a ELSE b
        kind == IF t = "add(" THEN "Set" ELSE "Map"
        h1 == [last.h EXCEPT ![target.n] =
                 IF t = "add(" THEN SetAdd(@, a.v) ELSE MapPut(@, a.v, b.v)]
    IN IF t \notin {"add(", "set("} THEN EvErr("SyntaxError", p, h)
       ELSE IF a.err # "none" THEN a
       ELSE IF t = "set(" /\ Tok(toks, a.p) # ", " THEN EvErr("SyntaxError", a.p, a.h)
       ELSE IF last.err # "none" THEN last
       ELSE IF Tok(toks, last.p) # ")" THEN EvErr("SyntaxError", last.p, last.h)
       ELSE IF target.t # "ref" \/ last.h[target.n].kind # kind
       THEN EvErr("TypeError", last.p, last.h)
       ELSE IF Tok(toks, last.p + 1) = "." THEN EvalCalls(toks, last.p + 2, env, h1, target)
       ELSE Ev(target, last.p + 1, h1)

\* one statement of the function body that starts at p
EvalStatement(toks, p, env, h) ==
    LET q == IdentEnd(toks, p)
        name == SubSeq(toks, p, q - 1)
        target == env[CHOOSE i \in DOMAIN env : env[i].k = name].v
        d == DigitsEnd(toks, q + 1)
        key == IF Tok(toks, q) = "." THEN PropName(toks, q + 1)
               ELSE StringBody(toks, q + 2, <<>>)
        afterKey == IF Tok(toks, q) = "." THEN key.p ELSE key.p + 1
        byIndex == EvalExpr(toks, d + 2, env, h)
        byKey == EvalExpr(toks, afterKey + 1, env, h)
    IN IF Tok(toks, p) = "return " THEN EvalExpr(toks, p + 1, env, h)
       ELSE IF Tok(toks, p) \notin Range(chars) THEN EvErr("SyntaxError", p, h)
       ELSE IF Tok(toks, q) = "." /\ Tok(toks, q + 1) \in {"add(", "set("}
       THEN IF \E i \in DOMAIN env : env[i].k = name
            THEN EvalCalls(toks, q + 1, env, h, target)
            ELSE EvErr("ReferenceError", p, h)
       ELSE IF Tok(toks, q) = "[" /\ d > q + 1
       THEN IF Tok(toks, d) # "]" \/ Tok(toks, d + 1) # "=" THEN EvErr("SyntaxError", d, h)
            ELSE IF byIndex.err # "none" THEN byIndex
            ELSE IF ~\E i \in DOMAIN env : env[i].k = name
            THEN EvErr("ReferenceError", p, h)
            ELSE IF target.t # "ref" THEN EvErr("TypeError", p, h)
            ELSE Ev(byIndex.v, byIndex.p,
                    [byIndex.h EXCEPT ![target.n] =
                        SetIndex(@, StrNat(SubSeq(toks, q + 1, d - 1)), byIndex.v)])
       ELSE IF Tok(toks, q) = "." \/ (Tok(toks, q) = "[" /\ Tok(toks, q + 1) = "\"")
       THEN IF ~key.ok THEN EvErr("SyntaxError", key.p, h)
            ELSE IF Tok(toks, q) = "[" /\ Tok(toks, key.p) # "]"
            THEN EvErr("SyntaxError", key.p, h)
            ELSE IF Tok(toks, afterKey) # "=" THEN EvErr("SyntaxError", afterKey, h)
            ELSE IF byKey.err # "none" THEN byKey
            ELSE IF ~\E i \in DOMAIN env : env[i].k = name
            THEN EvErr("ReferenceError", p, h)
            ELSE IF target.t # "ref" THEN EvErr("TypeError", p, h)
            ELSE Ev(byKey.v, byKey.p,
                    [byKey.h EXCEPT ![target.n] = SetProp(@, key.cs, byKey.v)])
       ELSE EvErr("SyntaxError", q, h)

\* the statements of the function body from p on, up to its closing piece:
\* the value is what the body returns
RECURSIVE EvalBody(_, _, _, _)
EvalBody(toks, p, env, h) ==
    LET r == EvalStatement(toks, p, env, h)
    IN IF Tok(toks, p) = "}(" THEN Ev(Undef, p, h)
       ELSE IF r.err # "none" THEN r
       ELSE IF Tok(toks, p) = "return "
       THEN (IF Tok(toks, r.p) = "}(" THEN r ELSE EvErr("SyntaxError", r.p, r.h))
       ELSE IF Tok(toks, r.p) = ";" THEN EvalBody(toks, r.p + 1, env, r.h)
       ELSE IF Tok(toks, r.p) = "}(" THEN Ev(Undef, r.p, r.h)
       ELSE EvErr("SyntaxError", r.p, r.h)

\* the parameter names between p and q, apart by ","
RECURSIVE Parameters(_, _, _)
Parameters(toks, p, q) ==
    IF p >= q THEN <<>>
    ELSE LET e == IdentEnd(toks, p)
         IN <<SubSeq(toks, p, e - 1)>> \o Parameters(toks, e + 1, q)

\* (0, eval)(text): the text is one expression, bare or a call of a function
\* expression whose arguments are evaluated outside the function.  The text
\* is parsed whole before any of it runs, so a SyntaxError comes first.
Eval(toks) ==
    IF Tok(toks, 1) # "(function("
    THEN LET r == EvalExpr(toks, 1, <<>>, <<>>)
         IN IF r.err = "none" /\ r.p # Len(toks) + 1 THEN EvErr("SyntaxError", r.p, r.h) ELSE r
    ELSE LET open == Find(toks, 2, "){")
             close == Find(toks, 2, "}(")
             ps == Parameters(toks, 2, open)
             free == [i \in DOMAIN ps |-> [k |-> ps[i], v |-> Undef]]
             dry == EvalBody(toks, open + 1, free, [i \in 1..0 |-> Shell("Object")])
             args == EvalArguments(toks, close + 1, <<>>, <<>>,
                                   [sep |-> ",", close |-> "))"], <<>>)
             env == [i \in DOMAIN ps |->
                       [k |-> ps[i], v |-> IF i \in DOMAIN args.v THEN args.v[i] ELSE Undef]]
             body == EvalBody(toks, open + 1, env, args.h)
         IN IF open = 0 \/ close = 0 THEN EvErr("SyntaxError", 1, <<>>)
            ELSE IF dry.err = "SyntaxError" THEN dry
            ELSE IF args.err # "none" THEN args
            ELSE IF args.p # Len(toks) + 1 THEN EvErr("SyntaxError", args.p, args.h)
            ELSE body

\* deep equality of two values with their heaps: the same primitives at the
\* same places and one object of the second graph for every object of the
\* first, the same wherever the first is the same.  m pairs the objects met.
RECURSIVE Alike(_, _, _, _, _)
RECURSIVE AlikeAll(_, _, _, _, _)
Alike(v, w, g, h, m) ==
    IF v.t # "ref" \/ w.t # "ref" THEN [ok |-> v = w, m |-> m]
    ELSE IF \E i \in DOMAIN m : m[i][1] = v.n \/ m[i][2] = w.n
    THEN [ok |-> <<v.n, w.n>> \in Range(m), m |-> m]
    ELSE LET a == g[v.n]
             b == h[w.n]
         IN IF a.kind # b.kind \/ a.prim # b.prim
               \/ Len(a.items) # Len(b.items) \/ Len(a.props) # Len(b.props)
               \/ \E i \in DOMAIN a.props : a.props[i].k # b.props[i].k
            THEN [ok |-> FALSE, m |-> m]
            ELSE AlikeAll(SlotSeq(a), SlotSeq(b), g, h, Append(m, <<v.n, w.n>>))

AlikeAll(vs, ws, g, h, m) ==
    IF vs = <<>> THEN [ok |-> TRUE, m |-> m]
    ELSE LET r == Alike(Head(vs), Head(ws), g, h, m)
         IN IF r.ok THEN AlikeAll(Tail(vs), Tail(ws), g, h, r.m) ELSE r

(***************************************************************************)
(* The claims.                                                             *)
(***************************************************************************)
Returned == pc = "done"

\* every rendering that went into the text devalue returned
Renderings == IF names = <<>> THEN <<str>> ELSE values \o statements

\* how many slots of the graph, the root's place included, hold the value
RECURSIVE CountIn(_, _)
CountIn(q, v) ==
    IF q = <<>> THEN 0 ELSE (IF Head(q) = v THEN 1 ELSE 0) + CountIn(Tail(q), v)

Occurrences(h, v) ==
    CountIn(<<root>> \o Flatten([i \in DOMAIN h |-> SlotSeq(h[i]) \o <<h[i].hook>>]), v)

\* the value types the round trip covers: no callable and no object of a
\* foreign prototype, with symbol keys or with a conversion method
Supported ==
    /\ root # Fn
    /\ \A i \in DOMAIN input :
          /\ input[i].kind \notin {"Custom", "Symbolic"}
          /\ input[i].hook = NoHook
          /\ Fn \notin Range(SlotSeq(input[i]))

\* C1: for every value of the supported types, evaluating the text devalue
\* returns gives a value deep-equal to the input: the same primitives (the
\* sign of zero and absent array slots included), the same containers, and
\* one object wherever the input has one object.
C1_RoundTrip ==
    (Returned /\ Supported) =>
       LET r == Eval(result)
       IN r.err = "none" /\ Alike(root, r.v, input, r.h, <<>>).ok

\* C2: devalue never raises for any value shape: no call ends in the TypeError
\* of a property access gone wrong, whatever the root is or holds (the stack
\* running out on a rendering that never returns is C3's subject).
C2_NeverRaises == ~(pc = "thrown" /\ error = "TypeError")

\* C3: devalue terminates on every finite value graph, cyclic or not: no
\* rendering re-enters an object that lies on a cycle, so none runs until the
\* stack is exhausted.
C3_Terminates == error # "RangeError"

\* the places of the graph where the emitter meets a value: the root, the
\* elements, members, keys and property values of the containers and the
\* primitive inside a boxed scalar
Places(h) ==
    <<root>> \o
    Flatten([i \in DOMAIN h |->
        Flatten([j \in DOMAIN h[i].items |->
                    IF h[i].kind = "Map" THEN <<h[i].items[j].k, h[i].items[j].v>>
                    ELSE <<h[i].items[j].v>>])
          \o [j \in DOMAIN h[i].props |-> h[i].props[j].v]
          \o (IF h[i].kind = "Number" THEN <<h[i].prim>> ELSE <<>>)])

Sites(v) == CountIn([i \in DOMAIN Places(input) |-> SameValueZero(Places(input)[i])], v)

RECURSIVE Sum(_)
Sum(q) == IF q = <<>> THEN 0 ELSE Head(q) + Sum(Tail(q))

\* how often the text refers to the value by its identifier
IdCount(v) == Sum([i \in DOMAIN Renderings |-> CountIn(Renderings[i].ids, v)])

\* C4: once the names are assigned, every key of the count table counted twice
\* or more has exactly one identifier, no other value has one, and no two keys
\* share an identifier; in the text returned the wrapper has one parameter and
\* one shell argument per name, no rendering renders a named value by its
\* structure in place, and in a graph of the supported types the identifier of
\* a named value stands at every one of its places.
C4_IdentityCollapse ==
    /\ pc \in {"named", "rendered", "done"} =>
          /\ \A i \in DOMAIN counts :
                counts[i].v >= 2 =>
                   Cardinality({ j \in DOMAIN names : names[j].k = counts[i].k }) = 1
          /\ \A j \in DOMAIN names : MapHas(counts, names[j].k) /\ MapGet(counts, names[j].k) >= 2
          /\ \A j, l \in DOMAIN names : names[j].v = names[l].v => j = l
    /\ (Returned /\ names # <<>>) =>
          /\ params = [j \in DOMAIN names |-> names[j].v]
          /\ Len(values) = Len(names)
          /\ \A i \in DOMAIN Renderings, j \in DOMAIN names :
                names[j].k \notin Range(Renderings[i].inl)
          /\ Supported => \A j \in DOMAIN names : IdCount(names[j].k) = Sites(names[j].k)

\* {x: a, y: a}: one object held at two places of a record is named, and the
\* text mentions its identifier twice
C4_SharedObjectNamed ==
    /\ Returned /\ Supported
    /\ \E j \in DOMAIN names :
          /\ names[j].k.t = "ref" /\ names[j].k # root
          /\ MapGet(counts, names[j].k) = 2
          /\ IdCount(names[j].k) = 2
          /\ heap[root.n].kind = "Object"

\* C5: if no object of the graph is reachable by two paths (equal primitives at
\* different places are not a repeat), the name table is empty and the text
\* returned is the bare rendered expression, with no wrapper.
C5_NoWrapperWhenNothingRepeats ==
    (Returned /\ \A j \in DOMAIN input : Occurrences(input, Ref(j)) <= 1)
      => (names = <<>> /\ result = str.txt /\ "(function(" \notin Range(result))

\* C6: the text devalue returns holds no "<" directly followed by "/".
C6_NoClosingTagOpener ==
    Returned => \A i \in 1..(Len(result) - 1) : ~(result[i] = "<" /\ result[i + 1] = "/")

\* C7: within one call the number of diagnostics handed to the reporter, of
\* every kind together, never exceeds the configured cap.
C7_DiagnosticCap == reported <= logLimit

\* C8: a callable is never a key of the reference count table, and one held in
\* a slot of a container contributes nothing to the text returned: no rendering
\* renders it as a value.
C8_CallablesOmitted ==
    /\ ~MapHas(counts, Fn)
    /\ (Returned /\ root # Fn) =>
          \A i \in DOMAIN Renderings : Fn \notin Range(Renderings[i].inl)

\* C9: canonicalization changes a slot of the graph only by putting, in place
\* of an object with a conversion method, what that object converts to; every
\* other slot of every object, and the number of slots, stays as it was.
Converted(v) ==
    IF v.t = "ref" /\ input[v.n].hook # NoHook
    THEN LET raw == input[v.n].hook
         IN IF raw.t = "str"
            THEN (IF JsonParse(raw.s).ok THEN JsonParse(raw.s).v ELSE v)
            ELSE raw
    ELSE v

C9_SpliceTouchesOnlyTheSlot ==
    \A i \in DOMAIN input :
       /\ Len(heap[i].items) = Len(input[i].items)
       /\ Len(heap[i].props) = Len(input[i].props)
       /\ \A j \in DOMAIN input[i].items :
             /\ heap[i].items[j].k \in {input[i].items[j].k, Converted(input[i].items[j].k)}
             /\ heap[i].items[j].v \in {input[i].items[j].v, Converted(input[i].items[j].v)}
       /\ \A j \in DOMAIN input[i].props :
             /\ heap[i].props[j].k = input[i].props[j].k
             /\ heap[i].props[j].v \in {input[i].props[j].v, Converted(input[i].props[j].v)}

\* C10: every population statement of the wrapper is well formed: a named set
\* or map with members gives one statement of chained calls, a named array one
\* assignment per present slot, a named record one per key, a named container
\* without members no statement at all (none ends in a bare "."); and no shell
\* value passed as an argument mentions a parameter of the wrapper.
StatementsOf(thing) ==
    IF isPrimitive(thing) THEN 0
    ELSE LET node == heap[thing.n]
         IN CASE node.kind = "Array" ->
                   Cardinality({ i \in DOMAIN node.items : node.items[i].v # Hole })
              [] node.kind \in {"Set", "Map"} -> IF node.items = <<>> THEN 0 ELSE 1
              [] node.kind \in {"Number", "Date", "RegExp"} -> 0
              [] OTHER -> Len(node.props)

RECURSIVE SumStatements(_)
SumStatements(nm) ==
    IF nm = <<>> THEN 0 ELSE StatementsOf(Head(nm).k) + SumStatements(Tail(nm))

C10_WellFormedStatements ==
    (Returned /\ names # <<>>) =>
       /\ Len(statements) = SumStatements(names) + 1
       /\ \A i \in DOMAIN statements : statements[i].txt[Len(statements[i].txt)] # "."
       /\ \A i \in DOMAIN values : values[i].ids = <<>>

====
